---- MODULE Spec2Model ----
(***************************************************************************)
(* Budget and dayparting enforcement engine of remotereps: the campaign    *)
(* state machine (campaigns/models.py), the spend ledger                   *)
(* (spending/models.py, spending/services.py) and the dayparting matcher   *)
(* and sweeps (scheduling/models.py, scheduling/services.py).              *)
(***************************************************************************)
EXTENDS Integers, Sequences, FiniteSets, TLC

(***************************************************************************)
(* Bounds of the model.                                                    *)
(***************************************************************************)
\* brand.daily_budget and brand.monthly_budget of the one brand, in currency units
DailyBudget == 1
MonthlyBudget == 2
\* the counters daily_spend / monthly_spend are explored up to this value
MaxSpend == 2
\* the largest spend amount offered to track_spend / add_spend
MaxAmount == 2
\* Spend rows are explored up to this many
MaxSpends == 2
\* a campaign's schedule rows are explored up to this many
MaxRows == 2
\* the clock runs over the first NumDays days of the week, and a day over
\* the times 0..MaxTime
NumDays == 1
MaxTime == 2

Days == 0 .. (NumDays - 1)
Times == 0 .. MaxTime
\* amounts offered to the spend operations: negative, zero and positive
Amounts == (-1) .. MaxAmount

\* CampaignStatus
ACTIVE == "ACTIVE"
PAUSED == "PAUSED"
\* PauseReason
DAILY_BUDGET_EXCEEDED == "DAILY_BUDGET_EXCEEDED"
MONTHLY_BUDGET_EXCEEDED == "MONTHLY_BUDGET_EXCEEDED"
OUTSIDE_SCHEDULE == "OUTSIDE_SCHEDULE"
NO_SCHEDULE == "NO_SCHEDULE"
MANUAL == "MANUAL"
PauseReason == {DAILY_BUDGET_EXCEEDED, MONTHLY_BUDGET_EXCEEDED, OUTSIDE_SCHEDULE, NO_SCHEDULE, MANUAL}
\* SpendType
DAILY == "DAILY"
MONTHLY == "MONTHLY"
\* a null column: pause_reason (a string column) and paused_at (a timestamp)
NULL == "NULL"
NoTime == <<>>

VARIABLES
    campaigns,   \* the campaigns table: id -> row
    schedules,   \* the schedules table: campaign id -> set of rows
    spends,      \* the spends table: the rows in creation order
    clock,       \* timezone.now(): [day |-> weekday, time |-> time of day]
    last,        \* the last operation run, its arguments and what it returned
    procs        \* the concurrent processes: their position and loaded copies

vars == <<campaigns, schedules, spends, clock, last, procs>>

\* Campaign.objects.all(): the ids of the stored campaigns
Campaigns == DOMAIN campaigns

(***************************************************************************)
(* Brand: the budgets read through campaign.brand.                         *)
(***************************************************************************)
brand(c) == [daily_budget |-> DailyBudget, monthly_budget |-> MonthlyBudget]

\* timezone.now() as a timestamp value
Now == <<clock.day, clock.time>>

(***************************************************************************)
(* Campaign: a row as Campaign.objects.create leaves it.                   *)
(***************************************************************************)
NewCampaign == [status |-> ACTIVE, pause_reason |-> NULL, paused_at |-> NoTime,
                daily_spend |-> 0, monthly_spend |-> 0]

is_active(camp) == camp.status = ACTIVE

is_paused(camp) == camp.status = PAUSED

\* pause leaving the reason of an already paused campaign in place
pause_keeps_first_reason(camp, reason, now) ==
    [camp EXCEPT !.status = PAUSED,
                 !.pause_reason = IF camp.status = PAUSED THEN @ ELSE reason,
                 !.paused_at = now]

\* Campaign.pause: the three fields are set and saved together
pause(camp, reason, now) ==
    [camp EXCEPT !.status = PAUSED, !.pause_reason = reason, !.paused_at = now]

(***************************************************************************)
(* Schedule: the dayparting rows and the matcher.                          *)
(***************************************************************************)
\* clean accepting equal times
clean_allows_equal(s) == s.start_time <= s.end_time

\* Schedule.clean: a row is stored only with start_time < end_time
clean(s) == s.start_time < s.end_time

Row(d, st, en, act) == [day_of_week |-> d, start_time |-> st, end_time |-> en, is_active |-> act]

\* Schedule.is_time_in_range
is_time_in_range(s, t) == s.start_time <= t /\ t <= s.end_time

\* the rows Schedule.objects.get(campaign, day_of_week, is_active=True) matches
ActiveRowsFor(c, d) == {s \in schedules[c] : s.day_of_week = d /\ s.is_active}

\* .get() raises MultipleObjectsReturned when several rows match
get_schedule_raises(c, d) == Cardinality(ActiveRowsFor(c, d)) > 1

\* SchedulingService.is_campaign_scheduled_now, where the lookup does not raise
is_campaign_scheduled_now(c) ==
    /\ ActiveRowsFor(c, clock.day) # {}
    /\ \A s \in ActiveRowsFor(c, clock.day) : is_time_in_range(s, clock.time)

\* SchedulingService.is_campaign_scheduled_now as its caller sees it:
\* "true", "false", or "raise" when the lookup's .get() matches several rows
scheduled_now_outcome(c) ==
    IF get_schedule_raises(c, clock.day) THEN "raise"
    ELSE IF is_campaign_scheduled_now(c) THEN "true"
    ELSE "false"

\* can_be_activated comparing the daily counter with > for >=
can_be_activated_at_budget(camp, c) ==
    IF camp.daily_spend > brand(c).daily_budget THEN "false"
    ELSE IF camp.monthly_spend >= brand(c).monthly_budget THEN "false"
    ELSE IF get_schedule_raises(c, clock.day) THEN "raise"
    ELSE IF ~is_campaign_scheduled_now(c) THEN "false"
    ELSE "true"

\* can_be_activated with the schedule check left out
can_be_activated_budget_only(camp, c) ==
    IF camp.daily_spend >= brand(c).daily_budget THEN "false"
    ELSE IF camp.monthly_spend >= brand(c).monthly_budget THEN "false"
    ELSE "true"

\* can_be_activated with both budget checks left out
can_be_activated_schedule_only(camp, c) ==
    IF get_schedule_raises(c, clock.day) THEN "raise"
    ELSE IF ~is_campaign_scheduled_now(c) THEN "false"
    ELSE "true"

\* can_be_activated with the monthly budget check left out
can_be_activated_no_monthly(camp, c) ==
    IF camp.daily_spend >= brand(c).daily_budget THEN "false"
    ELSE IF get_schedule_raises(c, clock.day) THEN "raise"
    ELSE IF ~is_campaign_scheduled_now(c) THEN "false"
    ELSE "true"

\* Campaign.can_be_activated: "true", "false" or "raise"; the budget checks
\* return before the schedule lookup is made
can_be_activated(camp, c) ==
    IF camp.daily_spend >= brand(c).daily_budget THEN "false"
    ELSE IF camp.monthly_spend >= brand(c).monthly_budget THEN "false"
    ELSE IF get_schedule_raises(c, clock.day) THEN "raise"
    ELSE IF ~is_campaign_scheduled_now(c) THEN "false"
    ELSE "true"

\* activate with the pause_reason assignment left out
activate_keeps_reason(camp, c) ==
    IF can_be_activated(camp, c) = "true"
    THEN [camp EXCEPT !.status = ACTIVE, !.paused_at = NoTime]
    ELSE camp

\* Campaign.activate on a loaded row: the row it leaves
activate(camp, c) ==
    IF can_be_activated(camp, c) = "true"
    THEN [camp EXCEPT !.status = ACTIVE, !.pause_reason = NULL, !.paused_at = NoTime]
    ELSE camp

\* the amount check with < for <=: zero passes
invalid_amount_negative_only(amount) == amount < 0

\* the amount check of Campaign.add_spend and SpendingService.track_spend
invalid_amount(amount) == amount <= 0

\* Campaign.add_spend on a loaded row
add_spend(camp, amount) ==
    [camp EXCEPT !.daily_spend = @ + amount, !.monthly_spend = @ + amount]

(***************************************************************************)
(* Spend: the ledger rows.                                                 *)
(***************************************************************************)
\* the value Model.__init__ gives Spend.id: the field's default, uuid.uuid4
SpendIdDefault == "uuid4"

\* Spend(campaign=..., amount=..., spend_type=DAILY) as track_spend builds it
NewSpend(c, amount) ==
    [pk |-> SpendIdDefault, campaign |-> c, amount |-> amount, spend_type |-> DAILY]

\* Spend.save: is_new = self.pk is None
is_new(spend) == spend.pk = NULL

\* Spend.save: the campaign row after the save of a spend of that campaign
SpendSave(spend, camp) ==
    IF is_new(spend) THEN add_spend(camp, spend.amount) ELSE camp

(***************************************************************************)
(* SpendingService.check_budget_limits on a loaded row: the row it leaves  *)
(* and the dictionary it returns.                                          *)
(***************************************************************************)
\* the daily check comparing with > for >=
AfterDailyCheckStrict(camp, c, now) ==
    IF camp.daily_spend > brand(c).daily_budget /\ is_active(camp)
    THEN pause(camp, DAILY_BUDGET_EXCEEDED, now)
    ELSE camp

\* the daily check pausing whatever the status is
AfterDailyCheckAnyStatus(camp, c, now) ==
    IF camp.daily_spend >= brand(c).daily_budget
    THEN pause(camp, DAILY_BUDGET_EXCEEDED, now)
    ELSE camp

\* the row after the daily check (services.py 91-96)
AfterDailyCheck(camp, c, now) ==
    IF camp.daily_spend >= brand(c).daily_budget /\ is_active(camp)
    THEN pause(camp, DAILY_BUDGET_EXCEEDED, now)
    ELSE camp

\* the monthly check reading the status loaded before the daily check
MonthlyCheckPausesStale(camp, c, now) ==
    /\ camp.monthly_spend >= brand(c).monthly_budget
    /\ is_active(camp)

\* whether the monthly check pauses: it reads the row the daily check left
MonthlyCheckPauses(camp, c, now) ==
    /\ camp.monthly_spend >= brand(c).monthly_budget
    /\ is_active(AfterDailyCheck(camp, c, now))

check_budget_limits(camp, c, now) ==
    LET dailyPaused == camp.daily_spend >= brand(c).daily_budget /\ is_active(camp)
        monthlyPaused == MonthlyCheckPauses(camp, c, now)
    IN  [camp |-> IF monthlyPaused
                  THEN pause(AfterDailyCheck(camp, c, now), MONTHLY_BUDGET_EXCEEDED, now)
                  ELSE AfterDailyCheck(camp, c, now),
         daily_exceeded |-> camp.daily_spend >= brand(c).daily_budget,
         monthly_exceeded |-> camp.monthly_spend >= brand(c).monthly_budget,
         action_taken |-> IF monthlyPaused THEN "paused_monthly"
                          ELSE IF dailyPaused THEN "paused_daily"
                          ELSE NULL]

RECURSIVE SumOver(_, _)
\* the sum of f[x] over the finite set S
SumOver(S, f) ==
    IF S = {} THEN 0
    ELSE LET x == CHOOSE y \in S : TRUE IN f[x] + SumOver(S \ {x}, f)

\* what an operation leaves in last
Done(op, c, amount, outcome, result) ==
    [op |-> op, campaign |-> c, amount |-> amount, outcome |-> outcome, result |-> result]

NoResult == [none |-> TRUE]

(***************************************************************************)
(* The operations, each run to completion on freshly loaded rows.          *)
(***************************************************************************)
\* Campaign.pause(reason), as the admin action and the services call it
Pause(c, reason) ==
    /\ campaigns' = [campaigns EXCEPT ![c] = pause(@, reason, Now)]
    /\ last' = Done("pause", c, 0, reason, NoResult)
    /\ UNCHANGED <<schedules, spends, clock, procs>>

\* Campaign.activate(): returns a boolean, or the schedule lookup raises
Activate(c) ==
    /\ campaigns' = [campaigns EXCEPT ![c] = activate(@, c)]
    /\ last' = Done("activate", c, 0, can_be_activated(campaigns[c], c), NoResult)
    /\ UNCHANGED <<schedules, spends, clock, procs>>

\* Campaign.add_spend(amount)
AddSpend(c, amount) ==
    /\ IF invalid_amount(amount)
       THEN /\ last' = Done("add_spend", c, amount, "ValueError", NoResult)
            /\ UNCHANGED campaigns
       ELSE /\ campaigns[c].daily_spend + amount <= MaxSpend
            /\ campaigns[c].monthly_spend + amount <= MaxSpend
            /\ campaigns' = [campaigns EXCEPT ![c] = add_spend(@, amount)]
            /\ last' = Done("add_spend", c, amount, "ok", NoResult)
    /\ UNCHANGED <<schedules, spends, clock, procs>>

\* SpendingService.track_spend(campaign, amount)
TrackSpend(c, amount) ==
    /\ IF invalid_amount(amount)
       THEN /\ last' = Done("track_spend", c, amount, "ValueError", NoResult)
            /\ UNCHANGED <<campaigns, spends>>
       ELSE LET spend == NewSpend(c, amount)
                saved == SpendSave(spend, campaigns[c])
                check == check_budget_limits(saved, c, Now)
            IN  /\ Len(spends) < MaxSpends
                /\ saved.daily_spend <= MaxSpend
                /\ saved.monthly_spend <= MaxSpend
                /\ spends' = Append(spends, spend)
                /\ campaigns' = [campaigns EXCEPT ![c] = check.camp]
                /\ last' = Done("track_spend", c, amount, "ok",
                                [action_taken |-> check.action_taken])
    /\ UNCHANGED <<schedules, clock, procs>>

\* the block left by an exception with its writes kept
atomic_keeps_writes(before, inside) == inside

\* with transaction.atomic(): a block left by an exception is rolled back,
\* the tables are as they were before the block
atomic_on_error(before, inside) == before

\* the statements of track_spend's block that touch storage
TrackSpendFailPoints == {"create", "add_spend", "check_budget_limits"}

\* SpendingService.track_spend(campaign, amount) with a storage error raised
\* inside the block: by the INSERT of the Spend row, by add_spend's save (run
\* for a new row only), or by the save of the budget check's pause
TrackSpendFails(c, amount, at) ==
    LET spend == NewSpend(c, amount)
        written == IF at = "create" THEN spends ELSE Append(spends, spend)
        saved == IF at = "check_budget_limits"
                 THEN SpendSave(spend, campaigns[c]) ELSE campaigns[c]
    IN  /\ ~invalid_amount(amount)
        /\ Len(spends) < MaxSpends
        /\ at = "add_spend" => is_new(spend)
        /\ at = "check_budget_limits" =>
              check_budget_limits(saved, c, Now).action_taken # NULL
        /\ spends' = atomic_on_error(spends, written)
        /\ campaigns' = atomic_on_error(campaigns, [campaigns EXCEPT ![c] = saved])
        /\ last' = Done("track_spend", c, amount, "Exception", [failed_at |-> at])
        /\ UNCHANGED <<schedules, clock, procs>>

\* SpendingService.check_budget_limits(campaign)
CheckBudgetLimits(c) ==
    LET check == check_budget_limits(campaigns[c], c, Now)
    IN  /\ campaigns' = [campaigns EXCEPT ![c] = check.camp]
        /\ last' = Done("check_budget_limits", c, 0, "ok",
                        [daily_exceeded |-> check.daily_exceeded,
                         monthly_exceeded |-> check.monthly_exceeded,
                         action_taken |-> check.action_taken])
        /\ UNCHANGED <<schedules, spends, clock, procs>>

\* the loop of enforce_budget_limits ending at the first failing check
ChecksUntilFailure(active, failing) == IF failing = {} THEN active ELSE {}

\* the campaigns whose check runs to its end: the except inside the loop
\* catches a failing check and the loop goes on
CompletedChecks(active, failing) == active \ failing

\* SpendingService.enforce_budget_limits(); for the campaigns in failing the
\* one save of check_budget_limits (the pause) raises and the row stays
EnforceBudgetLimits ==
    LET active == {c \in Campaigns : is_active(campaigns[c])}
        check(c) == check_budget_limits(campaigns[c], c, Now)
    IN  \E failing \in SUBSET {c \in active : check(c).action_taken # NULL} :
          LET completed == CompletedChecks(active, failing)
          IN  /\ campaigns' = [c \in Campaigns |->
                                  IF c \in completed THEN check(c).camp ELSE campaigns[c]]
              /\ last' = Done("enforce_budget_limits", "-", 0, "ok",
                    [checked |-> Cardinality(active),
                     paused_daily |-> Cardinality({c \in completed : check(c).action_taken = "paused_daily"}),
                     paused_monthly |-> Cardinality({c \in completed : check(c).action_taken = "paused_monthly"}),
                     errors |-> Cardinality(failing)])
              /\ UNCHANGED <<schedules, spends, clock, procs>>

(***************************************************************************)
(* SchedulingService: the dayparting sweep.                                *)
(***************************************************************************)
\* get_campaigns_that_should_be_paused, where no lookup raises: an ACTIVE
\* campaign with no schedule for today or outside today's window
should_be_paused(c) ==
    /\ is_active(campaigns[c])
    /\ \/ ActiveRowsFor(c, clock.day) = {}
       \/ \E s \in ActiveRowsFor(c, clock.day) : ~is_time_in_range(s, clock.time)

\* the lookup of the pause phase raises for some ACTIVE campaign; the list
\* is built before any campaign is paused, so the raise reaches the outer except
pause_phase_raises ==
    \E c \in Campaigns : is_active(campaigns[c]) /\ get_schedule_raises(c, clock.day)

\* get_campaigns_that_should_be_active: the active rows of today covering
\* the current time, one list entry per row
RowsCoveringNow(c) ==
    {s \in schedules[c] : /\ s.day_of_week = clock.day
                          /\ s.is_active
                          /\ s.start_time <= clock.time
                          /\ s.end_time >= clock.time}

\* the activate phase accepting every pause reason
AnyPauseReason == PauseReason

\* the reasons the activate phase accepts (services.py 133-136)
ScheduleReasons == {OUTSIDE_SCHEDULE, NO_SCHEDULE}

\* the activate phase looks at this loaded row
activate_candidate(camp, c) ==
    /\ RowsCoveringNow(c) # {}
    /\ is_paused(camp)
    /\ camp.pause_reason \in ScheduleReasons

\* the pause phase giving NO_SCHEDULE to a campaign without schedule rows
AfterPausePhaseNoSchedule ==
    [c \in Campaigns |->
        IF should_be_paused(c)
        THEN pause(campaigns[c], IF schedules[c] = {} THEN NO_SCHEDULE ELSE OUTSIDE_SCHEDULE, Now)
        ELSE campaigns[c]]

\* the campaigns table after the pause phase
AfterPausePhase ==
    [c \in Campaigns |->
        IF should_be_paused(c) THEN pause(campaigns[c], OUTSIDE_SCHEDULE, Now)
        ELSE campaigns[c]]

\* SchedulingService.enforce_dayparting()
EnforceDayparting ==
    /\ IF pause_phase_raises
       THEN /\ UNCHANGED campaigns
            /\ last' = Done("enforce_dayparting", "-", 0, "ok",
                            [activated |-> 0, paused |-> 0, errors |-> 1])
       ELSE LET mid == AfterPausePhase
                cand == {c \in Campaigns : activate_candidate(mid[c], c)}
                ok == {c \in cand : can_be_activated(mid[c], c) = "true"}
                bad == {c \in cand : can_be_activated(mid[c], c) = "raise"}
            IN  /\ campaigns' = [c \in Campaigns |->
                                    IF c \in ok THEN activate(mid[c], c) ELSE mid[c]]
                /\ last' = Done("enforce_dayparting", "-", 0, "ok",
                      [activated |-> Cardinality(ok),
                       paused |-> Cardinality({c \in Campaigns : should_be_paused(c)}),
                       errors |-> SumOver(bad, [c \in Campaigns |->
                                                  Cardinality(RowsCoveringNow(c))])])
    /\ UNCHANGED <<schedules, spends, clock, procs>>

\* SchedulingService.is_campaign_scheduled_now(campaign), called on its own
IsCampaignScheduledNow(c) ==
    /\ last' = Done("is_campaign_scheduled_now", c, 0, scheduled_now_outcome(c), NoResult)
    /\ UNCHANGED <<campaigns, schedules, spends, clock, procs>>

(***************************************************************************)
(* SpendingService: the period resets.                                     *)
(***************************************************************************)
\* reset_daily_spend zeroing the other counter
reset_daily_spend_wrong_field(camp) == [camp EXCEPT !.monthly_spend = 0]

\* reset_monthly_spend zeroing both counters
reset_monthly_spend_clears_daily(camp) == [camp EXCEPT !.monthly_spend = 0, !.daily_spend = 0]

\* reset_daily_spend taking one daily budget off the counter instead of zeroing it
reset_daily_spend_carries_excess(camp) ==
    [camp EXCEPT !.daily_spend = IF @ > DailyBudget THEN @ - DailyBudget ELSE 0]

\* Campaign.reset_daily_spend / reset_monthly_spend on a loaded row
reset_daily_spend(camp) == [camp EXCEPT !.daily_spend = 0]

reset_monthly_spend(camp) == [camp EXCEPT !.monthly_spend = 0]

\* the second loop of a reset: the rows PAUSED with the reason are re-queried
\* after the zeroing and activated when can_be_activated returns true
Reactivate(mid, reason, op) ==
    LET cand == {c \in Campaigns : is_paused(mid[c]) /\ mid[c].pause_reason = reason}
        ok == {c \in cand : can_be_activated(mid[c], c) = "true"}
        bad == {c \in cand : can_be_activated(mid[c], c) = "raise"}
    IN  /\ campaigns' = [c \in Campaigns |->
                            IF c \in ok THEN activate(mid[c], c) ELSE mid[c]]
        /\ last' = Done(op, "-", 0, "ok",
                        [reset |-> Cardinality(Campaigns),
                         reactivated |-> Cardinality(ok),
                         errors |-> Cardinality(bad)])

\* SpendingService.reset_daily_spends()
ResetDailySpends ==
    /\ Reactivate([c \in Campaigns |-> reset_daily_spend(campaigns[c])],
                  DAILY_BUDGET_EXCEEDED, "reset_daily_spends")
    /\ UNCHANGED <<schedules, spends, clock, procs>>

\* SpendingService.reset_monthly_spends()
ResetMonthlySpends ==
    /\ Reactivate([c \in Campaigns |-> reset_monthly_spend(campaigns[c])],
                  MONTHLY_BUDGET_EXCEEDED, "reset_monthly_spends")
    /\ UNCHANGED <<schedules, spends, clock, procs>>

(***************************************************************************)
(* The clock: time passes between operations.                              *)
(***************************************************************************)
Tick ==
    /\ clock' = IF clock.time < MaxTime
                THEN [clock EXCEPT !.time = @ + 1]
                ELSE [day |-> (clock.day + 1) % NumDays, time |-> 0]
    /\ last' = Done("tick", "-", 0, "ok", NoResult)
    /\ UNCHANGED <<campaigns, schedules, spends, procs>>

(***************************************************************************)
(* The schedules a campaign starts with: none, one window, an inactive     *)
(* row, two active rows on one day (unique_together allows them when the   *)
(* ranges differ), a row for a later day of the week.                      *)
(***************************************************************************)
ScheduleConfigs ==
    { {},
      {Row(0, 0, 1, TRUE)},
      {Row(0, 0, 1, FALSE)},
      {Row(0, 0, 1, TRUE), Row(0, 1, MaxTime, TRUE)},
      {Row(NumDays, 1, MaxTime, TRUE)} }

NoProcs == [none |-> TRUE]

Init ==
    /\ campaigns = [c \in {"c1"} |-> NewCampaign]
    /\ schedules \in [{"c1"} -> ScheduleConfigs]
    /\ spends = <<>>
    /\ clock = [day |-> 0, time |-> 0]
    /\ last = Done("init", "-", 0, "ok", NoResult)
    /\ procs = NoProcs

Next ==
    \/ \E c \in Campaigns, reason \in PauseReason : Pause(c, reason)
    \/ \E c \in Campaigns : Activate(c)
    \/ \E c \in Campaigns, amount \in Amounts : AddSpend(c, amount)
    \/ \E c \in Campaigns, amount \in Amounts : TrackSpend(c, amount)
    \/ \E c \in Campaigns, amount \in Amounts, at \in TrackSpendFailPoints :
          TrackSpendFails(c, amount, at)
    \/ \E c \in Campaigns : CheckBudgetLimits(c)
    \/ \E c \in Campaigns : IsCampaignScheduledNow(c)
    \/ EnforceBudgetLimits
    \/ EnforceDayparting
    \/ ResetDailySpends
    \/ ResetMonthlySpends
    \/ Tick

Spec == Init /\ [][Next]_vars

(***************************************************************************)
(* The sweeps over two campaigns of the brand.  The rows at the start are  *)
(* rows the operations above produce: created ACTIVE, or paused at time 0  *)
(* of day 0 for any reason, with counters raised by add_spend and zeroed   *)
(* by the resets.                                                          *)
(***************************************************************************)
SweepCampaigns == {"c1", "c2"}

\* daily_spend and monthly_spend at the start of a run: under both budgets,
\* at the daily budget only, at the monthly budget only, over both
SweepSpends == {<<0, 0>>, <<DailyBudget, DailyBudget>>, <<0, MonthlyBudget>>, <<MaxSpend, MaxSpend>>}

SweepRows ==
    {[NewCampaign EXCEPT !.daily_spend = sp[1], !.monthly_spend = sp[2]] : sp \in SweepSpends}
    \cup
    {[pause(NewCampaign, r, <<0, 0>>) EXCEPT !.daily_spend = sp[1], !.monthly_spend = sp[2]] :
        r \in PauseReason, sp \in SweepSpends}

InitSweep ==
    /\ campaigns \in [SweepCampaigns -> SweepRows]
    /\ schedules \in [SweepCampaigns -> ScheduleConfigs]
    /\ spends = <<>>
    /\ clock \in [day : Days, time : Times]
    /\ last = Done("init", "-", 0, "ok", NoResult)
    /\ procs = NoProcs

NextSweep ==
    \/ EnforceBudgetLimits
    \/ EnforceDayparting
    \/ ResetDailySpends
    \/ ResetMonthlySpends

SpecSweep == InitSweep /\ [][NextSweep]_vars

(***************************************************************************)
(* The operations interleaved on one campaign.  Every process works on the *)
(* Campaign object it loaded; a step is one storage read or one save().    *)
(* A save writes the columns of its update_fields from the object and      *)
(* leaves the other columns of the stored row alone.                       *)
(***************************************************************************)
\* a save naming status alone in its update_fields
SaveStatusOnly(row, obj) == [row EXCEPT !.status = obj.status]

\* save(update_fields=['status', 'pause_reason', 'paused_at', 'updated_at'])
SaveStatus(row, obj) ==
    [row EXCEPT !.status = obj.status, !.pause_reason = obj.pause_reason,
                !.paused_at = obj.paused_at]

\* save(update_fields=['daily_spend', 'monthly_spend', 'updated_at'])
SaveSpends(row, obj) ==
    [row EXCEPT !.daily_spend = obj.daily_spend, !.monthly_spend = obj.monthly_spend]

\* save(update_fields=['daily_spend', 'updated_at'])
SaveDaily(row, obj) == [row EXCEPT !.daily_spend = obj.daily_spend]

\* save(update_fields=['monthly_spend', 'updated_at'])
SaveMonthly(row, obj) == [row EXCEPT !.monthly_spend = obj.monthly_spend]

\* no object loaded
NoObject == [none |-> TRUE]

\* a process before its first step
Process(kind, c) == [kind |-> kind, campaign |-> c, pc |-> "start", obj |-> NoObject, amount |-> 0]

Procs == DOMAIN procs

\* the process moves on, holding obj
Goto(p, pc, obj) == procs' = [procs EXCEPT ![p].pc = pc, ![p].obj = obj]

\* the process ends and drops its object
Finish(p) == procs' = [procs EXCEPT ![p].pc = "done", ![p].obj = NoObject]

\* the stored row of the process's campaign takes the columns write(row, obj)
Store(c, row) == campaigns' = [campaigns EXCEPT ![c] = row]

\* the caller of a spend recording loads the campaign (tasks/budget_tasks.py:
\* Campaign.objects.get) and picks track_spend or Campaign.add_spend
SpendLoad(p) ==
    /\ procs[p].kind = "spend"
    /\ procs[p].pc = "start"
    /\ \E how \in {"track_spend", "add_spend"}, amount \in 1 .. MaxAmount :
          procs' = [procs EXCEPT ![p].pc = how, ![p].amount = amount,
                                 ![p].obj = campaigns[procs[p].campaign]]
    /\ UNCHANGED <<campaigns, schedules, spends, clock, last>>

\* Campaign.add_spend on the loaded object: += and save
SpendAdd(p) ==
    LET c == procs[p].campaign
        obj == add_spend(procs[p].obj, procs[p].amount)
    IN  /\ procs[p].kind = "spend"
        /\ procs[p].pc = "add_spend"
        /\ obj.daily_spend <= MaxSpend
        /\ obj.monthly_spend <= MaxSpend
        /\ Store(c, SaveSpends(campaigns[c], obj))
        /\ Finish(p)
        /\ UNCHANGED <<schedules, spends, clock, last>>

\* track_spend: Spend.objects.create, whose save updates the totals of a new row
SpendCreate(p) ==
    LET c == procs[p].campaign
        spend == NewSpend(c, procs[p].amount)
        obj == SpendSave(spend, procs[p].obj)
    IN  /\ procs[p].kind = "spend"
        /\ procs[p].pc = "track_spend"
        /\ Len(spends) < MaxSpends
        /\ obj.daily_spend <= MaxSpend
        /\ obj.monthly_spend <= MaxSpend
        /\ spends' = Append(spends, spend)
        /\ Store(c, IF is_new(spend) THEN SaveSpends(campaigns[c], obj) ELSE campaigns[c])
        /\ Goto(p, "daily", obj)
        /\ UNCHANGED <<schedules, clock, last>>

\* enforce_budget_limits: Campaign.objects.filter(status=ACTIVE)
BudgetLoad(p) ==
    LET c == procs[p].campaign
    IN  /\ procs[p].kind = "budget"
        /\ procs[p].pc = "start"
        /\ IF is_active(campaigns[c])
           THEN Goto(p, "daily", campaigns[c])
           ELSE Finish(p)
        /\ UNCHANGED <<campaigns, schedules, spends, clock, last>>

\* check_budget_limits, the daily branch, on the loaded object
CheckDaily(p) ==
    LET c == procs[p].campaign
        obj == AfterDailyCheck(procs[p].obj, c, Now)
    IN  /\ procs[p].kind \in {"budget", "spend"}
        /\ procs[p].pc = "daily"
        /\ IF obj # procs[p].obj
           THEN Store(c, SaveStatus(campaigns[c], obj))
           ELSE UNCHANGED campaigns
        /\ Goto(p, "monthly", obj)
        /\ UNCHANGED <<schedules, spends, clock, last>>

\* check_budget_limits, the monthly branch, on the object the daily branch left
CheckMonthly(p) ==
    LET c == procs[p].campaign
        obj == check_budget_limits(procs[p].obj, c, Now).camp
    IN  /\ procs[p].kind \in {"budget", "spend"}
        /\ procs[p].pc = "monthly"
        /\ IF obj # procs[p].obj
           THEN Store(c, SaveStatus(campaigns[c], obj))
           ELSE UNCHANGED campaigns
        /\ Finish(p)
        /\ UNCHANGED <<schedules, spends, clock, last>>

\* enforce_dayparting: get_campaigns_that_should_be_paused
DaypartQueryPause(p) ==
    LET c == procs[p].campaign
    IN  /\ procs[p].kind = "dayparting"
        /\ procs[p].pc = "start"
        /\ IF pause_phase_raises THEN Finish(p)
           ELSE IF should_be_paused(c) THEN Goto(p, "pause", campaigns[c])
           ELSE Goto(p, "query_active", NoObject)
        /\ UNCHANGED <<campaigns, schedules, spends, clock, last>>

\* enforce_dayparting: campaign.pause(OUTSIDE_SCHEDULE) on the listed object
DaypartPause(p) ==
    LET c == procs[p].campaign
        obj == pause(procs[p].obj, OUTSIDE_SCHEDULE, Now)
    IN  /\ procs[p].kind = "dayparting"
        /\ procs[p].pc = "pause"
        /\ Store(c, SaveStatus(campaigns[c], obj))
        /\ Goto(p, "query_active", NoObject)
        /\ UNCHANGED <<schedules, spends, clock, last>>

\* enforce_dayparting: get_campaigns_that_should_be_active (select_related)
DaypartQueryActive(p) ==
    LET c == procs[p].campaign
    IN  /\ procs[p].kind = "dayparting"
        /\ procs[p].pc = "query_active"
        /\ IF RowsCoveringNow(c) # {} /\ activate_candidate(campaigns[c], c)
           THEN Goto(p, "activate", campaigns[c])
           ELSE Finish(p)
        /\ UNCHANGED <<campaigns, schedules, spends, clock, last>>

\* the second loop of a reset and the activate phase of the dayparting sweep:
\* can_be_activated and activate, both on the loaded object
ActivateLoaded(p) ==
    LET c == procs[p].campaign
        obj == activate(procs[p].obj, c)
    IN  /\ procs[p].kind \in {"dayparting", "reset_daily", "reset_monthly"}
        /\ procs[p].pc = "activate"
        /\ IF obj # procs[p].obj
           THEN Store(c, SaveStatus(campaigns[c], obj))
           ELSE UNCHANGED campaigns
        /\ Finish(p)
        /\ UNCHANGED <<schedules, spends, clock, last>>

\* reset_daily_spends / reset_monthly_spends, the first loop: the object of
\* Campaign.objects.all() is zeroed and saved with update_fields naming the
\* counter alone, so the row takes 0 whatever the load returned
ResetZero(p) ==
    LET c == procs[p].campaign
    IN  /\ procs[p].kind \in {"reset_daily", "reset_monthly"}
        /\ procs[p].pc = "start"
        /\ IF procs[p].kind = "reset_daily"
           THEN Store(c, SaveDaily(campaigns[c], reset_daily_spend(campaigns[c])))
           ELSE Store(c, SaveMonthly(campaigns[c], reset_monthly_spend(campaigns[c])))
        /\ Goto(p, "requery", NoObject)
        /\ UNCHANGED <<schedules, spends, clock, last>>

\* the reset's second query: status=PAUSED with the matching budget reason
ResetRequery(p) ==
    LET c == procs[p].campaign
        reason == IF procs[p].kind = "reset_daily"
                  THEN DAILY_BUDGET_EXCEEDED ELSE MONTHLY_BUDGET_EXCEEDED
    IN  /\ procs[p].kind \in {"reset_daily", "reset_monthly"}
        /\ procs[p].pc = "requery"
        /\ IF is_paused(campaigns[c]) /\ campaigns[c].pause_reason = reason
           THEN Goto(p, "activate", campaigns[c])
           ELSE Finish(p)
        /\ UNCHANGED <<campaigns, schedules, spends, clock, last>>

\* the rows the contended campaign can hold when the processes start: ACTIVE,
\* or paused earlier by a sweep, under or over either budget
ConcRows ==
    {r \in SweepRows : r.pause_reason \in
        {NULL, DAILY_BUDGET_EXCEEDED, MONTHLY_BUDGET_EXCEEDED, OUTSIDE_SCHEDULE}}

\* its schedules: none, one window, two active rows for today
ConcSchedules == {cfg \in ScheduleConfigs : \A r \in cfg : r.is_active /\ r.day_of_week \in Days}

\* the processes start after time 0, when the paused rows were paused
ConcClocks == {k \in [day : Days, time : Times] : <<k.day, k.time>> # <<0, 0>>}

InitConc ==
    /\ campaigns \in [{"c1"} -> ConcRows]
    /\ schedules \in [{"c1"} -> ConcSchedules]
    /\ spends = <<>>
    /\ clock \in ConcClocks
    /\ last = Done("init", "-", 0, "ok", NoResult)
    /\ procs = [p \in {"budget", "dayparting", "reset_daily", "reset_monthly", "spend"} |->
                   Process(p, "c1")]

NextConc ==
    \/ \E p \in Procs : SpendLoad(p)
    \/ \E p \in Procs : SpendAdd(p)
    \/ \E p \in Procs : SpendCreate(p)
    \/ \E p \in Procs : BudgetLoad(p)
    \/ \E p \in Procs : CheckDaily(p)
    \/ \E p \in Procs : CheckMonthly(p)
    \/ \E p \in Procs : DaypartQueryPause(p)
    \/ \E p \in Procs : DaypartPause(p)
    \/ \E p \in Procs : DaypartQueryActive(p)
    \/ \E p \in Procs : ActivateLoaded(p)
    \/ \E p \in Procs : ResetZero(p)
    \/ \E p \in Procs : ResetRequery(p)

\* the four sweeps and one spend recording, interleaved on one campaign
SpecConc == InitConc /\ [][NextConc]_vars

\* two spend recordings on one campaign, each on its own loaded object
InitSpends ==
    /\ campaigns = [c \in {"c1"} |-> NewCampaign]
    /\ schedules \in [{"c1"} -> ConcSchedules]
    /\ spends = <<>>
    /\ clock \in ConcClocks
    /\ last = Done("init", "-", 0, "ok", NoResult)
    /\ procs = [p \in {"spend1", "spend2"} |-> Process("spend", "c1")]

NextSpends ==
    \/ \E p \in Procs : SpendLoad(p)
    \/ \E p \in Procs : SpendAdd(p)
    \/ \E p \in Procs : SpendCreate(p)
    \/ \E p \in Procs : CheckDaily(p)
    \/ \E p \in Procs : CheckMonthly(p)

SpecSpends == InitSpends /\ [][NextSpends]_vars

(***************************************************************************)
(* Properties of the operations run one at a time (Spec).                  *)
(***************************************************************************)
\* the pairing of status, pause_reason and paused_at on one row
Paired(camp) ==
    /\ (camp.pause_reason = NULL) <=> (camp.status = ACTIVE)
    /\ (camp.status = ACTIVE) <=> (camp.paused_at = NoTime)

\* C1: in every reachable state every campaign has pause_reason null exactly
\* when its status is ACTIVE, and exactly when paused_at is null.
C1_PairingInvariant == \A c \in Campaigns : Paired(campaigns[c])

\* C1 witness: a campaign paused earlier has just been activated again, and
\* its three fields are cleared together.
C1_Witness ==
    /\ last.op = "activate"
    /\ last.outcome = "true"
    /\ \E c \in Campaigns : c = last.campaign /\ campaigns[c].status = ACTIVE
                            /\ campaigns[c].monthly_spend > 0

\* a step of track_spend that passed the amount check
TrackSpendStep == last'.op = "track_spend" /\ last'.outcome = "ok"

\* C2 (as claimed): after track_spend(campaign, amount) with amount > 0 the
\* stored daily_spend and monthly_spend are each exactly amount larger.
C2_TrackSpendIncrements ==
    [][TrackSpendStep =>
         LET c == last'.campaign
         IN  /\ campaigns'[c].daily_spend = campaigns[c].daily_spend + last'.amount
             /\ campaigns'[c].monthly_spend = campaigns[c].monthly_spend + last'.amount]_vars

\* C3 (as claimed): a track_spend on an ACTIVE campaign that brings daily_spend
\* to the daily budget or above, monthly_spend staying below the monthly
\* budget, leaves the campaign PAUSED with DAILY_BUDGET_EXCEEDED.
C3_SpendPausesAtDailyBudget ==
    [][TrackSpendStep =>
         LET c == last'.campaign
         IN  (/\ is_active(campaigns[c])
              /\ campaigns[c].daily_spend + last'.amount >= brand(c).daily_budget
              /\ campaigns[c].monthly_spend + last'.amount < brand(c).monthly_budget)
             => /\ campaigns'[c].status = PAUSED
                /\ campaigns'[c].pause_reason = DAILY_BUDGET_EXCEEDED]_vars

\* a step of check_budget_limits on an ACTIVE campaign over both budgets
BothExceededStep ==
    /\ last'.op = "check_budget_limits"
    /\ is_active(campaigns[last'.campaign])
    /\ campaigns[last'.campaign].daily_spend >= brand(last'.campaign).daily_budget
    /\ campaigns[last'.campaign].monthly_spend >= brand(last'.campaign).monthly_budget

C5_NonPositiveSpendRejected ==
    [][(last'.op = "track_spend" /\ last'.amount <= 0) =>
         /\ last'.outcome = "ValueError"
         /\ spends' = spends
         /\ campaigns' = campaigns]_vars

\* C5 witness: track_spend has just refused the amount 0, with Spend rows of
\* earlier valid calls in the table.
C5_Witness ==
    /\ last.op = "track_spend"
    /\ last.amount = 0
    /\ last.outcome = "ValueError"
    /\ Len(spends) > 0

(***************************************************************************)
(* Properties of one run of a sweep (SpecSweep).                           *)
(***************************************************************************)
\* the status fields of a row
StatusFields(camp) == <<camp.status, camp.pause_reason, camp.paused_at>>

\* an active schedule row of today covers the current time
WindowOpen(c) ==
    \E s \in schedules[c] :
        s.is_active /\ s.day_of_week = clock.day /\ is_time_in_range(s, clock.time)

\* C6: a run of enforce_dayparting leaves status, pause_reason and paused_at
\* of every campaign that was PAUSED with MANUAL, DAILY_BUDGET_EXCEEDED or
\* MONTHLY_BUDGET_EXCEEDED as they were.
C6_DaypartingKeepsManualAndBudgetPauses ==
    [][last'.op = "enforce_dayparting" =>
         \A c \in Campaigns :
            (/\ campaigns[c].status = PAUSED
             /\ campaigns[c].pause_reason \in
                   {MANUAL, DAILY_BUDGET_EXCEEDED, MONTHLY_BUDGET_EXCEEDED})
            => StatusFields(campaigns'[c]) = StatusFields(campaigns[c])]_vars

\* C6 witness: after a run that reactivated another campaign, a campaign is
\* still PAUSED with MANUAL from an earlier time although it is under both
\* budgets and inside its window.
C6_Witness ==
    /\ last.op = "enforce_dayparting"
    /\ last.result.activated = 1
    /\ \E c \in Campaigns :
          /\ campaigns[c].status = PAUSED
          /\ campaigns[c].pause_reason = MANUAL
          /\ campaigns[c].paused_at # Now
          /\ can_be_activated(campaigns[c], c) = "true"

\* C7: a run of enforce_dayparting moves a campaign from PAUSED to ACTIVE only
\* if its pause_reason was OUTSIDE_SCHEDULE or NO_SCHEDULE, it is under both
\* budgets and an active schedule of today covers the current time.
C7_DaypartingActivatesOnlyEligible ==
    [][last'.op = "enforce_dayparting" =>
         \A c \in Campaigns :
            (campaigns[c].status = PAUSED /\ campaigns'[c].status = ACTIVE)
            => /\ campaigns[c].pause_reason \in {OUTSIDE_SCHEDULE, NO_SCHEDULE}
               /\ campaigns[c].daily_spend < brand(c).daily_budget
               /\ campaigns[c].monthly_spend < brand(c).monthly_budget
               /\ WindowOpen(c)]_vars

\* C7 witness: a run has reactivated one campaign and left another one, whose
\* window is open but whose monthly budget is used up, PAUSED with a
\* schedule reason.
C7_Witness ==
    /\ last.op = "enforce_dayparting"
    /\ last.result.activated = 1
    /\ \E c \in Campaigns :
          /\ campaigns[c].status = PAUSED
          /\ campaigns[c].pause_reason \in {OUTSIDE_SCHEDULE, NO_SCHEDULE}
          /\ WindowOpen(c)
          /\ campaigns[c].daily_spend < brand(c).daily_budget
          /\ campaigns[c].monthly_spend >= brand(c).monthly_budget

\* C8: after a run of reset_daily_spends every campaign has daily_spend = 0;
\* the campaigns moved from PAUSED to ACTIVE are exactly those PAUSED with
\* DAILY_BUDGET_EXCEEDED for which can_be_activated holds after the zeroing;
\* the other DAILY_BUDGET_EXCEEDED campaigns keep status, pause_reason and
\* paused_at.
C8_DailyResetReactivatesExactlyEligible ==
    [][last'.op = "reset_daily_spends" =>
         \A c \in Campaigns :
            LET eligible ==
                    /\ campaigns[c].status = PAUSED
                    /\ campaigns[c].pause_reason = DAILY_BUDGET_EXCEEDED
                    /\ can_be_activated(reset_daily_spend(campaigns[c]), c) = "true"
            IN  /\ campaigns'[c].daily_spend = 0
                /\ (campaigns[c].status = PAUSED /\ campaigns'[c].status = ACTIVE)
                      <=> eligible
                /\ (/\ campaigns[c].status = PAUSED
                    /\ campaigns[c].pause_reason = DAILY_BUDGET_EXCEEDED
                    /\ ~eligible)
                   => StatusFields(campaigns'[c]) = StatusFields(campaigns[c])]_vars

\* C8 witness: a daily reset has reactivated one campaign and left another
\* one, outside its window, PAUSED with DAILY_BUDGET_EXCEEDED and a zeroed
\* counter.
C8_Witness ==
    /\ last.op = "reset_daily_spends"
    /\ last.result.reactivated = 1
    /\ \E c \in Campaigns :
          /\ campaigns[c].status = PAUSED
          /\ campaigns[c].pause_reason = DAILY_BUDGET_EXCEEDED
          /\ campaigns[c].daily_spend = 0
          /\ campaigns[c].monthly_spend < brand(c).monthly_budget
          /\ ~WindowOpen(c)

(***************************************************************************)
(* Properties of the interleaved operations (SpecConc, SpecSpends).        *)
(***************************************************************************)
\* C9: while enforce_budget_limits, enforce_dayparting, reset_daily_spends,
\* reset_monthly_spends and track_spend interleave on one campaign, each on
\* its own loaded copy, the stored row never has pause_reason set while its
\* status is ACTIVE, and never has status PAUSED while pause_reason or
\* paused_at is null.
C9_StoredRowNeverHalfPaused ==
    \A c \in Campaigns :
        /\ ~(campaigns[c].pause_reason # NULL /\ campaigns[c].status = ACTIVE)
        /\ ~(/\ campaigns[c].status = PAUSED
             /\ (campaigns[c].pause_reason = NULL \/ campaigns[c].paused_at = NoTime))

\* C9 witness: the budget sweep holds an ACTIVE copy at the daily budget and
\* is about to pause it, after the dayparting sweep has paused the stored row
\* with OUTSIDE_SCHEDULE at the current time.
C9_Witness ==
    \E p \in Procs :
        LET c == procs[p].campaign
        IN  /\ procs[p].kind = "budget"
            /\ procs[p].pc = "daily"
            /\ procs[p].obj.status = ACTIVE
            /\ procs[p].obj.daily_spend >= brand(c).daily_budget
            /\ campaigns[c].status = PAUSED
            /\ campaigns[c].pause_reason = OUTSIDE_SCHEDULE
            /\ campaigns[c].paused_at = Now

\* C10: when the two spend recordings on a campaign that started with zero
\* counters have both ended, the stored daily_spend and monthly_spend equal
\* the sum of the two amounts.
C10_NoLostSpend ==
    (\A p \in Procs : procs[p].pc = "done")
    => \A c \in Campaigns :
          LET total == SumOver(Procs, [p \in Procs |-> procs[p].amount])
          IN  /\ campaigns[c].daily_spend = total
              /\ campaigns[c].monthly_spend = total

(***************************************************************************)
(* Properties of the ledger, the activation checks and the matcher (Spec). *)
(***************************************************************************)
\* C11 (as claimed): the counters follow the ledger.  A track_spend raises
\* daily_spend by the amounts of the DAILY-typed Spend rows it created and
\* monthly_spend by the amounts of the MONTHLY-typed rows it created; a daily
\* reset leaves daily_spend = 0 and a monthly reset monthly_spend = 0, each
\* leaving the other counter alone.  So each counter equals the sum of the
\* rows of its type created since its last reset.
C11_CountersFollowLedger ==
    [][\A c \in Campaigns :
         LET created(type) ==
                 SumOver((Len(spends) + 1) .. Len(spends'),
                         [i \in 1 .. Len(spends') |->
                             IF spends'[i].campaign = c /\ spends'[i].spend_type = type
                             THEN spends'[i].amount ELSE 0])
         IN  /\ TrackSpendStep =>
                  /\ campaigns'[c].daily_spend = campaigns[c].daily_spend + created(DAILY)
                  /\ campaigns'[c].monthly_spend = campaigns[c].monthly_spend + created(MONTHLY)
             /\ last'.op = "reset_daily_spends" =>
                  /\ campaigns'[c].daily_spend = 0
                  /\ campaigns'[c].monthly_spend = campaigns[c].monthly_spend
             /\ last'.op = "reset_monthly_spends" =>
                  /\ campaigns'[c].monthly_spend = 0
                  /\ campaigns'[c].daily_spend = campaigns[c].daily_spend]_vars

\* C12: a track_spend that fails inside its block (the Spend row write, the
\* counter increment or the budget check raising) leaves the spends table
\* and the campaign's daily_spend and monthly_spend as they were.
C12_FailedSpendLeavesNothing ==
    [][(last'.op = "track_spend" /\ last'.outcome = "Exception") =>
         /\ spends' = spends
         /\ campaigns'[last'.campaign].daily_spend = campaigns[last'.campaign].daily_spend
         /\ campaigns'[last'.campaign].monthly_spend = campaigns[last'.campaign].monthly_spend]_vars

\* C12 witness: track_spend has failed in its budget check, after the INSERT
\* of the Spend row, on an ACTIVE campaign at its daily budget; the ledger
\* holds no row.
C12_Witness ==
    /\ last.op = "track_spend"
    /\ last.outcome = "Exception"
    /\ last.result.failed_at = "check_budget_limits"
    /\ spends = <<>>
    /\ campaigns[last.campaign].status = ACTIVE
    /\ campaigns[last.campaign].daily_spend >= brand(last.campaign).daily_budget

\* C13: can_be_activated returns true exactly when daily_spend is under the
\* daily budget, monthly_spend is under the monthly budget and
\* is_campaign_scheduled_now is true; with zero spend and the one window
\* 0..1 on day 0 it returns true at the times 0 and 1 and false at time 2.
C13_CanBeActivatedIsConjunction ==
    [][last'.op = "activate" =>
         LET c == last'.campaign
         IN  /\ (last'.outcome = "true") <=>
                   /\ campaigns[c].daily_spend < brand(c).daily_budget
                   /\ campaigns[c].monthly_spend < brand(c).monthly_budget
                   /\ scheduled_now_outcome(c) = "true"
             /\ (/\ campaigns[c].daily_spend = 0
                 /\ campaigns[c].monthly_spend = 0
                 /\ schedules[c] = {Row(0, 0, 1, TRUE)})
                => /\ clock = [day |-> 0, time |-> 1] => last'.outcome = "true"
                   /\ clock = [day |-> 0, time |-> 2] => last'.outcome = "false"]_vars

\* C13 witness: activate has been refused on a paused campaign under both
\* budgets, by the schedule alone: the time is after the end of its window.
C13_Witness ==
    /\ last.op = "activate"
    /\ last.outcome = "false"
    /\ campaigns[last.campaign].status = PAUSED
    /\ campaigns[last.campaign].daily_spend < brand(last.campaign).daily_budget
    /\ campaigns[last.campaign].monthly_spend < brand(last.campaign).monthly_budget
    /\ schedules[last.campaign] = {Row(0, 0, 1, TRUE)}
    /\ clock.time = 2

\* C14 (as claimed): activate returns true and leaves status ACTIVE,
\* pause_reason null and paused_at null when can_be_activated holds, and in
\* every other case returns false and leaves the three fields as they were.
C14_ActivateTrueOrFalse ==
    [][last'.op = "activate" =>
         LET c == last'.campaign
         IN  IF can_be_activated(campaigns[c], c) = "true"
             THEN /\ last'.outcome = "true"
                  /\ campaigns'[c].status = ACTIVE
                  /\ campaigns'[c].pause_reason = NULL
                  /\ campaigns'[c].paused_at = NoTime
             ELSE /\ last'.outcome = "false"
                  /\ StatusFields(campaigns'[c]) = StatusFields(campaigns[c])]_vars

\* C15: pause(reason) can be run in every state, and a run leaves status
\* PAUSED, pause_reason = reason (whatever the reason was before) and
\* paused_at = the current time, with daily_spend and monthly_spend unchanged.
C15_PauseAlwaysOverwrites ==
    /\ [](\A c \in Campaigns, reason \in PauseReason : ENABLED Pause(c, reason))
    /\ [][last'.op = "pause" =>
           LET c == last'.campaign
           IN  /\ campaigns'[c].status = PAUSED
               /\ campaigns'[c].pause_reason = last'.outcome
               /\ campaigns'[c].paused_at = Now
               /\ campaigns'[c].daily_spend = campaigns[c].daily_spend
               /\ campaigns'[c].monthly_spend = campaigns[c].monthly_spend]_vars

\* C15 witness: a campaign at its daily budget has just been paused with
\* MANUAL, later than time 0.
C15_Witness ==
    /\ last.op = "pause"
    /\ last.outcome = MANUAL
    /\ campaigns[last.campaign].status = PAUSED
    /\ campaigns[last.campaign].pause_reason = MANUAL
    /\ campaigns[last.campaign].paused_at = Now
    /\ clock.time > 0
    /\ campaigns[last.campaign].daily_spend >= brand(last.campaign).daily_budget

\* C16 (as claimed): is_campaign_scheduled_now is true exactly when an
\* active schedule row of today covers the current time (both ends
\* inclusive), and false when the campaign has no row, only inactive rows or
\* rows for other days only.
C16_ScheduledNowIffWindowOpen ==
    [][last'.op = "is_campaign_scheduled_now" =>
         LET c == last'.campaign
         IN  /\ (last'.outcome = "true") <=> WindowOpen(c)
             /\ ActiveRowsFor(c, clock.day) = {} => last'.outcome = "false"]_vars

\* C17 (as claimed): with two or more active schedule rows for today,
\* is_campaign_scheduled_now and can_be_activated return a boolean.
C17_SeveralSchedulesStillBoolean ==
    [][(/\ last'.op \in {"is_campaign_scheduled_now", "activate"}
        /\ Cardinality(ActiveRowsFor(last'.campaign, clock.day)) >= 2)
       => last'.outcome \in {"true", "false"}]_vars

(***************************************************************************)
(* Properties of the sweeps under failures (SpecSweep).                    *)
(***************************************************************************)
\* C18: enforce_budget_limits returns its summary whatever check fails;
\* checked counts every campaign ACTIVE at the start, errors the failing
\* checks, and the checks of all the other ACTIVE campaigns take effect.
C18_BudgetSweepSurvivesFailures ==
    [][last'.op = "enforce_budget_limits" =>
         LET active == {c \in Campaigns : is_active(campaigns[c])}
             effective == {c \in active :
                             campaigns'[c] = check_budget_limits(campaigns[c], c, Now).camp}
         IN  /\ last'.outcome = "ok"
             /\ last'.result.checked = Cardinality(active)
             /\ last'.result.errors <= Cardinality(active)
             /\ Cardinality(effective) >= Cardinality(active) - last'.result.errors]_vars

\* C18 witness: a run counted one failing check, whose campaign is still
\* ACTIVE at its daily budget, and paused the other campaign.
C18_Witness ==
    /\ last.op = "enforce_budget_limits"
    /\ last.result.errors = 1
    /\ last.result.checked = 2
    /\ last.result.paused_daily + last.result.paused_monthly = 1
    /\ \E c \in Campaigns :
          /\ campaigns[c].status = ACTIVE
          /\ campaigns[c].daily_spend >= brand(c).daily_budget

\* C19 (as claimed): a run of enforce_dayparting pauses every ACTIVE
\* campaign that is outside its schedule and whose own lookup does not fail,
\* and reactivates every eligible schedule-paused campaign, whatever lookup
\* fails for another campaign.
C19_DaypartingSurvivesLookupFailure ==
    [][last'.op = "enforce_dayparting" =>
         \A c \in Campaigns :
            /\ (~get_schedule_raises(c, clock.day) /\ should_be_paused(c))
               => campaigns'[c].status = PAUSED
            /\ (/\ is_paused(campaigns[c])
                /\ campaigns[c].pause_reason \in ScheduleReasons
                /\ can_be_activated(campaigns[c], c) = "true")
               => campaigns'[c].status = ACTIVE]_vars

\* C20: a run of enforce_budget_limits leaves every campaign that was not
\* ACTIVE at or over a budget as it was, reports checked = the number of
\* campaigns ACTIVE at the start and paused_daily + paused_monthly = the
\* number of campaigns it moved from ACTIVE to PAUSED, and, when no check
\* failed, leaves every campaign that was ACTIVE at or over a budget PAUSED
\* with a budget reason.
C20_BudgetSweepPausesExactlyOverBudget ==
    [][last'.op = "enforce_budget_limits" =>
         LET active == {c \in Campaigns : is_active(campaigns[c])}
             over == {c \in active : \/ campaigns[c].daily_spend >= brand(c).daily_budget
                                     \/ campaigns[c].monthly_spend >= brand(c).monthly_budget}
             moved == {c \in active : campaigns'[c].status = PAUSED}
         IN  /\ \A c \in Campaigns \ over : campaigns'[c] = campaigns[c]
             /\ last'.result.checked = Cardinality(active)
             /\ last'.result.paused_daily + last'.result.paused_monthly = Cardinality(moved)
             /\ last'.result.errors = 0 =>
                  \A c \in over :
                     /\ campaigns'[c].status = PAUSED
                     /\ campaigns'[c].pause_reason \in
                           {DAILY_BUDGET_EXCEEDED, MONTHLY_BUDGET_EXCEEDED}]_vars

\* C20 witness: a run without a failing check checked two ACTIVE campaigns,
\* paused the one at its monthly budget and left the other one ACTIVE.
C20_Witness ==
    /\ last.op = "enforce_budget_limits"
    /\ last.result.errors = 0
    /\ last.result.checked = 2
    /\ last.result.paused_monthly = 1
    /\ last.result.paused_daily = 0
    /\ \E c \in Campaigns : campaigns[c].status = ACTIVE

(***************************************************************************)
(* Properties of the dayparting sweep and the frame of the resets.         *)
(***************************************************************************)
\* C21 (as claimed): after a run of enforce_dayparting every campaign that
\* was ACTIVE with no active schedule row of today covering the current time
\* is PAUSED with OUTSIDE_SCHEDULE, and every campaign that is ACTIVE has
\* is_campaign_scheduled_now true.
C21_OnlyScheduledCampaignsStayActive ==
    [][last'.op = "enforce_dayparting" =>
         \A c \in Campaigns :
            /\ (is_active(campaigns[c]) /\ ~WindowOpen(c))
               => /\ campaigns'[c].status = PAUSED
                  /\ campaigns'[c].pause_reason = OUTSIDE_SCHEDULE
            /\ campaigns'[c].status = ACTIVE => scheduled_now_outcome(c) = "true"]_vars

\* C22: track_spend, check_budget_limits, the budget sweep, the dayparting
\* sweep and the two resets never give a campaign the pause_reason
\* NO_SCHEDULE, and a campaign without any schedule row that the dayparting
\* sweep pauses gets OUTSIDE_SCHEDULE.
C22_NoScheduleNeverAssigned ==
    [][last'.op \in {"track_spend", "check_budget_limits", "enforce_budget_limits",
                     "enforce_dayparting", "reset_daily_spends", "reset_monthly_spends"} =>
         \A c \in Campaigns :
            /\ campaigns'[c].pause_reason = NO_SCHEDULE
               => campaigns[c].pause_reason = NO_SCHEDULE
            /\ (/\ last'.op = "enforce_dayparting"
                /\ schedules[c] = {}
                /\ is_active(campaigns[c])
                /\ campaigns'[c].status = PAUSED)
               => campaigns'[c].pause_reason = OUTSIDE_SCHEDULE]_vars

\* C22 witness: the dayparting sweep has just paused a campaign that has no
\* schedule row, with OUTSIDE_SCHEDULE.
C22_Witness ==
    /\ last.op = "enforce_dayparting"
    /\ last.result.paused = 1
    /\ \E c \in Campaigns :
          /\ schedules[c] = {}
          /\ campaigns[c].status = PAUSED
          /\ campaigns[c].pause_reason = OUTSIDE_SCHEDULE
          /\ campaigns[c].paused_at = Now

\* C23: a reset leaves the Spend rows as they were, leaves the counter of
\* the other period as it was, and leaves status, pause_reason and paused_at
\* of every campaign that was ACTIVE, or PAUSED with another reason than the
\* reset's budget reason, as they were.
C23_ResetFrame ==
    [][last'.op \in {"reset_daily_spends", "reset_monthly_spends"} =>
         LET daily == last'.op = "reset_daily_spends"
             reason == IF daily THEN DAILY_BUDGET_EXCEEDED ELSE MONTHLY_BUDGET_EXCEEDED
         IN  /\ spends' = spends
             /\ \A c \in Campaigns :
                   /\ daily => campaigns'[c].monthly_spend = campaigns[c].monthly_spend
                   /\ ~daily => campaigns'[c].daily_spend = campaigns[c].daily_spend
                   /\ (is_active(campaigns[c]) \/ campaigns[c].pause_reason # reason)
                      => StatusFields(campaigns'[c]) = StatusFields(campaigns[c])]_vars

\* C23 witness: a monthly reset has run over a ledger with rows and a
\* campaign PAUSED with DAILY_BUDGET_EXCEEDED, which keeps its daily_spend
\* and stays paused.
C23_Witness ==
    /\ last.op = "reset_monthly_spends"
    /\ Len(spends) > 0
    /\ \E c \in Campaigns :
          /\ campaigns[c].status = PAUSED
          /\ campaigns[c].pause_reason = DAILY_BUDGET_EXCEEDED
          /\ campaigns[c].daily_spend >= brand(c).daily_budget
          /\ campaigns[c].monthly_spend = 0

(***************************************************************************)
(* Schedule management: rows created and updated through Schedule.save     *)
(* (the model, the admin and the API viewset), the admin's bulk            *)
(* activate/deactivate, and SchedulingService.create_default_schedule.     *)
(***************************************************************************)
\* the rows a caller can ask for, valid or not
ScheduleRows == {Row(d, st, en, act) : d \in Days, st \in Times, en \in Times, act \in BOOLEAN}

\* Meta.unique_together: another row of the campaign has the same day and times
unique_together_violated(rows, s) ==
    \E r \in rows : /\ r.day_of_week = s.day_of_week
                    /\ r.start_time = s.start_time
                    /\ r.end_time = s.end_time

\* Schedule.save of row s next to the rows others: clean, then the INSERT or UPDATE
save_outcome(others, s) ==
    IF ~clean(s) THEN "ValidationError"
    ELSE IF unique_together_violated(others, s) THEN "IntegrityError"
    ELSE "ok"

\* Schedule.objects.create(campaign=c, ...)
CreateSchedule(c, s) ==
    /\ Cardinality(schedules[c]) < MaxRows
    /\ schedules' = IF save_outcome(schedules[c], s) = "ok"
                    THEN [schedules EXCEPT ![c] = @ \cup {s}]
                    ELSE schedules
    /\ last' = Done("create_schedule", c, 0, save_outcome(schedules[c], s), [row |-> s])
    /\ UNCHANGED <<campaigns, spends, clock, procs>>

\* a stored row is given new field values and saved
UpdateSchedule(c, old, s) ==
    /\ old \in schedules[c]
    /\ schedules' = IF save_outcome(schedules[c] \ {old}, s) = "ok"
                    THEN [schedules EXCEPT ![c] = (@ \ {old}) \cup {s}]
                    ELSE schedules
    /\ last' = Done("update_schedule", c, 0, save_outcome(schedules[c] \ {old}, s), [row |-> s])
    /\ UNCHANGED <<campaigns, spends, clock, procs>>

\* the admin actions: queryset.update(is_active=...), which does not call save
SetScheduleActive(c, old, act) ==
    /\ old \in schedules[c]
    /\ schedules' = [schedules EXCEPT ![c] = (@ \ {old}) \cup {[old EXCEPT !.is_active = act]}]
    /\ last' = Done("set_schedule_active", c, 0, "ok", [row |-> old])
    /\ UNCHANGED <<campaigns, spends, clock, procs>>

\* time(23, 59, 59), the end of the default rows: the last whole second of
\* the day, before the latest instants timezone.now().time() takes (MaxTime)
DefaultEnd == MaxTime - 1

\* the row create_default_schedule creates for a day
DefaultRow(d) == Row(d, 0, DefaultEnd, TRUE)

\* the first day whose row create_default_schedule cannot insert, or NumDays
FirstConflict(rows) ==
    IF \E d \in Days : unique_together_violated(rows, DefaultRow(d))
    THEN CHOOSE d \in Days : /\ unique_together_violated(rows, DefaultRow(d))
                             /\ \A e \in Days : e < d => ~unique_together_violated(rows, DefaultRow(e))
    ELSE NumDays

\* SchedulingService.create_default_schedule(campaign): one create per day,
\* in the order of the days, outside any transaction
CreateDefaultSchedule(c) ==
    LET stop == FirstConflict(schedules[c])
    IN  /\ Cardinality(schedules[c]) + NumDays <= MaxRows
        /\ schedules' = [schedules EXCEPT ![c] = @ \cup {DefaultRow(d) : d \in {e \in Days : e < stop}}]
        /\ last' = Done("create_default_schedule", c, 0,
                        IF stop = NumDays THEN "ok" ELSE "IntegrityError", NoResult)
        /\ UNCHANGED <<campaigns, spends, clock, procs>>

\* a campaign as created, or paused by an earlier dayparting run
ScheduleSpecRows == {NewCampaign, pause(NewCampaign, OUTSIDE_SCHEDULE, <<0, 0>>)}

InitSchedules ==
    /\ campaigns \in [{"c1"} -> ScheduleSpecRows]
    /\ schedules = [c \in {"c1"} |-> {}]
    /\ spends = <<>>
    /\ clock = [day |-> 0, time |-> 0]
    /\ last = Done("init", "-", 0, "ok", NoResult)
    /\ procs = NoProcs

NextSchedules ==
    \/ \E c \in Campaigns, s \in ScheduleRows : CreateSchedule(c, s)
    \/ \E c \in Campaigns, s \in ScheduleRows : \E old \in schedules[c] : UpdateSchedule(c, old, s)
    \/ \E c \in Campaigns, act \in BOOLEAN : \E old \in schedules[c] : SetScheduleActive(c, old, act)
    \/ \E c \in Campaigns : CreateDefaultSchedule(c)
    \/ \E c \in Campaigns : IsCampaignScheduledNow(c)
    \/ \E c \in Campaigns : Activate(c)
    \/ EnforceDayparting
    \/ Tick

\* schedule management, the matcher and the dayparting sweep on one campaign
SpecSchedules == InitSchedules /\ [][NextSchedules]_vars

(***************************************************************************)
(* Properties of schedule management (SpecSchedules).                      *)
(***************************************************************************)
\* C24: every stored schedule row has start_time < end_time, and a create or
\* an update asking for end_time <= start_time is rejected and leaves the
\* stored rows as they were.
C24_StoredSchedulesAreOrdered ==
    /\ [](\A c \in Campaigns : \A s \in schedules[c] : s.start_time < s.end_time)
    /\ [][(/\ last'.op \in {"create_schedule", "update_schedule"}
           /\ last'.result.row.end_time <= last'.result.row.start_time)
          => /\ last'.outcome = "ValidationError"
             /\ schedules' = schedules]_vars

\* C24 witness: an update asking for equal start and end times has just been
\* rejected, and the campaign still has its stored row.
C24_Witness ==
    /\ last.op = "update_schedule"
    /\ last.outcome = "ValidationError"
    /\ last.result.row.start_time = last.result.row.end_time
    /\ schedules[last.campaign] # {}

\* C27 (as claimed): a campaign whose schedule rows are those of
\* create_default_schedule has is_campaign_scheduled_now true on every day
\* and at every time.
C27_DefaultScheduleCoversTheDay ==
    \A c \in Campaigns :
        (schedules[c] = {DefaultRow(d) : d \in Days}) => scheduled_now_outcome(c) = "true"

(***************************************************************************)
(* Sweeps that stop part way (the worker is killed or times out) and are   *)
(* run again.  A loop handles its campaigns in the order the query returns *)
(* them, which is not fixed: a prefix is any subset.                       *)
(***************************************************************************)
\* the table after check_budget_limits has run on the campaigns in handled
BudgetChecked(handled) ==
    [c \in Campaigns |->
        IF c \in handled THEN check_budget_limits(campaigns[c], c, Now).camp ELSE campaigns[c]]

\* the ACTIVE campaigns, which enforce_budget_limits loops over
ActiveCampaigns == {c \in Campaigns : is_active(campaigns[c])}

\* the table after the dayparting pause loop has handled the campaigns in handled
DaypartPaused(handled) ==
    [c \in Campaigns |->
        IF c \in handled THEN pause(campaigns[c], OUTSIDE_SCHEDULE, Now) ELSE campaigns[c]]

\* the campaigns the activate loop of enforce_dayparting moves to ACTIVE
\* after a complete pause loop
DaypartActivated ==
    {c \in Campaigns : /\ activate_candidate(AfterPausePhase[c], c)
                       /\ can_be_activated(AfterPausePhase[c], c) = "true"}

\* the table after a complete pause loop and the activate loop on handled
DaypartReactivated(handled) ==
    [c \in Campaigns |->
        IF c \in handled THEN activate(AfterPausePhase[c], c) ELSE AfterPausePhase[c]]

\* the table after the zeroing loop of a reset has handled the campaigns in handled
ResetZeroed(daily, handled) ==
    [c \in Campaigns |->
        IF c \notin handled THEN campaigns[c]
        ELSE IF daily THEN reset_daily_spend(campaigns[c]) ELSE reset_monthly_spend(campaigns[c])]

\* the campaigns the second loop of a reset moves to ACTIVE
ResetActivated(daily) ==
    LET mid == ResetZeroed(daily, Campaigns)
        reason == IF daily THEN DAILY_BUDGET_EXCEEDED ELSE MONTHLY_BUDGET_EXCEEDED
    IN  {c \in Campaigns : /\ is_paused(mid[c])
                           /\ mid[c].pause_reason = reason
                           /\ can_be_activated(mid[c], c) = "true"}

\* the table after a complete zeroing loop and the second loop on handled
ResetReactivated(daily, handled) ==
    LET mid == ResetZeroed(daily, Campaigns)
    IN  [c \in Campaigns |-> IF c \in handled THEN activate(mid[c], c) ELSE mid[c]]

\* what a stopped run leaves in last: the table a run to the end would have left
Stopped(op, uninterrupted) == Done(op, "-", 0, "crashed", [uninterrupted |-> uninterrupted])

\* enforce_budget_limits stopping after some of its checks
CrashedBudgetLimits ==
    \E handled \in SUBSET ActiveCampaigns :
        /\ campaigns' = BudgetChecked(handled)
        /\ last' = Stopped("enforce_budget_limits", BudgetChecked(ActiveCampaigns))
        /\ UNCHANGED <<schedules, spends, clock, procs>>

\* enforce_dayparting stopping in its pause loop or in its activate loop; a
\* raising lookup ends the run before the first pause
CrashedDayparting ==
    /\ IF pause_phase_raises
       THEN /\ UNCHANGED campaigns
            /\ last' = Stopped("enforce_dayparting", campaigns)
       ELSE /\ \/ \E handled \in SUBSET {c \in Campaigns : should_be_paused(c)} :
                     campaigns' = DaypartPaused(handled)
               \/ \E handled \in SUBSET DaypartActivated :
                     campaigns' = DaypartReactivated(handled)
            /\ last' = Stopped("enforce_dayparting", DaypartReactivated(DaypartActivated))
    /\ UNCHANGED <<schedules, spends, clock, procs>>

\* a reset stopping in its zeroing loop or in its second loop: both loops
\* run inside one transaction.atomic(), which the stop rolls back
CrashedReset(daily) ==
    /\ \/ \E handled \in SUBSET Campaigns :
             campaigns' = atomic_on_error(campaigns, ResetZeroed(daily, handled))
       \/ \E handled \in SUBSET ResetActivated(daily) :
             campaigns' = atomic_on_error(campaigns, ResetReactivated(daily, handled))
    /\ last' = Stopped(IF daily THEN "reset_daily_spends" ELSE "reset_monthly_spends",
                       ResetReactivated(daily, ResetActivated(daily)))
    /\ UNCHANGED <<schedules, spends, clock, procs>>

InitCrash ==
    /\ campaigns \in [SweepCampaigns -> ConcRows]
    /\ schedules \in [SweepCampaigns -> ConcSchedules]
    /\ spends = <<>>
    /\ clock \in [day : Days, time : Times]
    /\ last = Done("init", "-", 0, "ok", NoResult)
    /\ procs = NoProcs

NextCrash ==
    \/ CrashedBudgetLimits
    \/ CrashedDayparting
    \/ \E daily \in BOOLEAN : CrashedReset(daily)
    \/ EnforceBudgetLimits
    \/ EnforceDayparting
    \/ ResetDailySpends
    \/ ResetMonthlySpends

\* the sweeps, stopped part way and run again, at one clock time
SpecCrash == InitCrash /\ [][NextCrash]_vars

(***************************************************************************)
(* Properties of stopped and repeated sweeps (SpecCrash, SpecSweep).       *)
(***************************************************************************)
\* C25: when a sweep stops after handling some of its campaigns and the same
\* sweep is then run to its end at the same time, with nothing in between
\* and no failing check, every campaign is left as one uninterrupted run
\* would have left it.
C25_RerunAfterCrashEqualsOneRun ==
    [][(/\ last.outcome = "crashed"
        /\ last'.op = last.op
        /\ last'.outcome = "ok"
        /\ last'.op = "enforce_budget_limits" => last'.result.errors = 0)
       => campaigns' = last.result.uninterrupted]_vars

\* C25 witness: a dayparting run has stopped after reactivating one of the
\* two campaigns it would have reactivated.
C25_Witness ==
    /\ last.op = "enforce_dayparting"
    /\ last.outcome = "crashed"
    /\ \E c, d \in Campaigns :
          /\ campaigns[c].status = ACTIVE
          /\ campaigns[d].status = PAUSED
          /\ last.result.uninterrupted[c].status = ACTIVE
          /\ last.result.uninterrupted[d].status = ACTIVE
          /\ campaigns[d].pause_reason = OUTSIDE_SCHEDULE

\* C26: a reset run directly after the same reset, at the same clock time,
\* changes no campaign (counters, status, pause_reason and paused_at stay as
\* the first run left them) and reports reactivated = 0.
C26_ResetsAreIdempotent ==
    [][(/\ last.op \in {"reset_daily_spends", "reset_monthly_spends"}
        /\ last.outcome = "ok"
        /\ last'.op = last.op
        /\ last'.outcome = "ok")
       => /\ campaigns' = campaigns
          /\ last'.result.reactivated = 0]_vars

\* C26 witness: a daily reset has reactivated one campaign and left another
\* PAUSED with DAILY_BUDGET_EXCEEDED and a zero daily counter, which the
\* next run finds again.
C26_Witness ==
    /\ last.op = "reset_daily_spends"
    /\ last.result.reactivated = 1
    /\ \E c \in Campaigns :
          /\ campaigns[c].status = PAUSED
          /\ campaigns[c].pause_reason = DAILY_BUDGET_EXCEEDED
          /\ campaigns[c].daily_spend = 0

(***************************************************************************)
(* ACTIVE campaigns and their budgets (Spec).                              *)
(***************************************************************************)
\* every ACTIVE campaign is under both budgets of its brand
ActiveUnderBudget ==
    \A c \in Campaigns :
        campaigns[c].status = ACTIVE =>
            /\ campaigns[c].daily_spend < brand(c).daily_budget
            /\ campaigns[c].monthly_spend < brand(c).monthly_budget

\* C28: track_spend, enforce_budget_limits, enforce_dayparting, the two
\* resets, pause and activate, run one at a time, keep every ACTIVE campaign
\* under its daily and its monthly budget: the campaign is created ACTIVE
\* with zero spend under positive budgets, and none of these operations
\* leaves the property once it holds.
C28_ActiveCampaignsAreUnderBudget ==
    /\ (campaigns = [c \in Campaigns |-> NewCampaign]) => ActiveUnderBudget
    /\ [][(/\ last'.op \in {"track_spend", "enforce_budget_limits", "enforce_dayparting",
                            "reset_daily_spends", "reset_monthly_spends", "pause", "activate"}
           /\ ActiveUnderBudget)
          => ActiveUnderBudget']_vars

\* C28 witness: a daily reset has put a campaign back to ACTIVE whose monthly
\* counter is above zero and under the budget.
C28_Witness ==
    /\ last.op = "reset_daily_spends"
    /\ last.result.reactivated = 1
    /\ \E c \in Campaigns :
          /\ campaigns[c].status = ACTIVE
          /\ campaigns[c].monthly_spend > 0
          /\ campaigns[c].monthly_spend < brand(c).monthly_budget

LiveWindows ==
    {{Row(d, w[1], w[2], TRUE) : d \in Days} : w \in {v \in Times \X Times : v[1] < v[2]}}

\* daily_reset_task: "This task runs daily at 00:00"
DailyResetTask ==
    /\ clock.time = 0
    /\ ResetDailySpends

\* enforce_budget_limits_task / enforce_dayparting_task at time t
EnforceBudgetLimitsTask(t) ==
    /\ clock.time = t
    /\ EnforceBudgetLimits

EnforceDaypartingTask(t) ==
    /\ clock.time = t
    /\ EnforceDayparting

InitLive ==
    /\ clock \in [day : Days, time : Times]
    /\ \E m \in 0 .. (MonthlyBudget - 1) :
          campaigns = [c \in {"c1"} |->
              [pause(NewCampaign, DAILY_BUDGET_EXCEEDED, Now)
                  EXCEPT !.daily_spend = DailyBudget, !.monthly_spend = m]]
    /\ schedules \in [{"c1"} -> LiveWindows]
    /\ spends = <<>>
    /\ last = Done("init", "-", 0, "ok", NoResult)
    /\ procs = NoProcs

NextLive ==
    \/ DailyResetTask
    \/ \E t \in Times : EnforceBudgetLimitsTask(t)
    \/ \E t \in Times : EnforceDaypartingTask(t)
    \/ Tick

\* time passes, the reset runs at every day boundary and each sweep runs
\* again and again at every time of the day
SpecLive ==
    /\ InitLive
    /\ [][NextLive]_vars
    /\ WF_vars(Tick)
    /\ SF_vars(DailyResetTask)
    /\ \A t \in Times : SF_vars(EnforceBudgetLimitsTask(t))
    /\ \A t \in Times : SF_vars(EnforceDaypartingTask(t))

\* C29: a campaign PAUSED with DAILY_BUDGET_EXCEEDED that has a window every
\* day, gets no further spend and is under its monthly budget is eventually
\* ACTIVE during one of its windows, wherever the day boundary lies.
C29_BudgetPausedEventuallyActive ==
    (/\ campaigns["c1"].status = PAUSED
     /\ campaigns["c1"].pause_reason = DAILY_BUDGET_EXCEEDED)
    ~> (campaigns["c1"].status = ACTIVE /\ WindowOpen("c1"))

(***************************************************************************)
(* The resets and the pause reason against concurrent writers (SpecConc).  *)
(***************************************************************************)
\* C31: when a reset and a spend recording on the same campaign have both
\* completed, the stored counter of the reset's period is 0 or the amount of
\* that one spend: nothing accumulated before the reset is in it.
C31_ResetDropsEarlierSpend ==
    /\ (procs["spend"].pc = "done" /\ procs["reset_daily"].pc = "done")
          => campaigns["c1"].daily_spend \in {0, procs["spend"].amount}
    /\ (procs["spend"].pc = "done" /\ procs["reset_monthly"].pc = "done")
          => campaigns["c1"].monthly_spend \in {0, procs["spend"].amount}

\* C32: once the stored row is PAUSED with a reason, a process holding a
\* copy of the campaign that it loaded before that reason was stored neither
\* replaces the reason nor sets the campaign ACTIVE.
C32_PauseReasonIsNotLost ==
    [][\A p \in Procs :
          LET c == procs[p].campaign
          IN  (/\ procs[p].obj # NoObject
               /\ procs'[p] # procs[p]
               /\ campaigns[c].status = PAUSED
               /\ procs[p].obj.pause_reason # campaigns[c].pause_reason)
              => /\ campaigns'[c].status = PAUSED
                 /\ campaigns'[c].pause_reason = campaigns[c].pause_reason]_vars

(***************************************************************************)
(* The resets and the sweeps composed (SpecSweep).                         *)
(***************************************************************************)
\* the table a complete run of reset_daily_spends (daily) or
\* reset_monthly_spends leaves when it starts from table
reset_spends(table, daily) ==
    LET mid == [c \in Campaigns |->
                   IF daily THEN reset_daily_spend(table[c]) ELSE reset_monthly_spend(table[c])]
        reason == IF daily THEN DAILY_BUDGET_EXCEEDED ELSE MONTHLY_BUDGET_EXCEEDED
        ok == {c \in Campaigns : /\ is_paused(mid[c])
                                 /\ mid[c].pause_reason = reason
                                 /\ can_be_activated(mid[c], c) = "true"}
    IN  [c \in Campaigns |-> IF c \in ok THEN activate(mid[c], c) ELSE mid[c]]

\* status, pause_reason and the two counters of a row
StatusAndCounters(camp) ==
    <<camp.status, camp.pause_reason, camp.daily_spend, camp.monthly_spend>>

\* a run of a reset leaves what reset_spends computes
ResetRunsAsComputed ==
    [][/\ last'.op = "reset_daily_spends" => campaigns' = reset_spends(campaigns, TRUE)
       /\ last'.op = "reset_monthly_spends" => campaigns' = reset_spends(campaigns, FALSE)]_vars

\* C33: at one clock time, the daily reset followed by the monthly reset
\* leaves every campaign with the same status, pause_reason and counters as
\* the monthly reset followed by the daily reset.
C33_ResetsCommute ==
    \A c \in Campaigns :
        StatusAndCounters(reset_spends(reset_spends(campaigns, TRUE), FALSE)[c])
            = StatusAndCounters(reset_spends(reset_spends(campaigns, FALSE), TRUE)[c])

\* the table a run of enforce_budget_limits in which no check fails leaves
\* when it starts from table
enforce_budget_limits(table) ==
    [c \in Campaigns |->
        IF is_active(table[c]) THEN check_budget_limits(table[c], c, Now).camp ELSE table[c]]

\* the table a run of enforce_dayparting leaves when it starts from table
enforce_dayparting(table) ==
    LET active == {c \in Campaigns : is_active(table[c])}
        raises == \E c \in active : get_schedule_raises(c, clock.day)
        outside == {c \in active :
                       \/ ActiveRowsFor(c, clock.day) = {}
                       \/ \E r \in ActiveRowsFor(c, clock.day) : ~is_time_in_range(r, clock.time)}
        mid == [c \in Campaigns |->
                   IF c \in outside THEN pause(table[c], OUTSIDE_SCHEDULE, Now) ELSE table[c]]
        ok == {c \in Campaigns : /\ activate_candidate(mid[c], c)
                                 /\ can_be_activated(mid[c], c) = "true"}
    IN  IF raises THEN table
        ELSE [c \in Campaigns |-> IF c \in ok THEN activate(mid[c], c) ELSE mid[c]]

\* a run of a sweep leaves what the table operators compute
SweepRunsAsComputed ==
    [][/\ (last'.op = "enforce_budget_limits" /\ last'.result.errors = 0)
          => campaigns' = enforce_budget_limits(campaigns)
       /\ last'.op = "enforce_dayparting" => campaigns' = enforce_dayparting(campaigns)]_vars

\* status, pause_reason and paused_at of every campaign are the same in both tables
SameStatus(t1, t2) == \A c \in Campaigns : StatusFields(t1[c]) = StatusFields(t2[c])

\* neither sweep changes a status field of table
Settled(table) ==
    /\ SameStatus(enforce_budget_limits(table), table)
    /\ SameStatus(enforce_dayparting(table), table)

\* C34: at one clock time, after one run each of enforce_budget_limits and
\* enforce_dayparting, in either order, a further run of either sweep changes
\* no campaign's status, pause_reason or paused_at.
C34_StatusDoesNotFlap ==
    /\ Settled(enforce_dayparting(enforce_budget_limits(campaigns)))
    /\ Settled(enforce_budget_limits(enforce_dayparting(campaigns)))

(***************************************************************************)
(* Paused campaigns under the automated operations (Spec).                 *)
(***************************************************************************)
\* C35: track_spend, check_budget_limits, enforce_budget_limits,
\* enforce_dayparting and the two resets leave a campaign that is PAUSED
\* with MANUAL as it is: PAUSED, MANUAL, the same paused_at.
C35_ManualPauseStays ==
    [][\A c \in Campaigns :
          (/\ campaigns[c].status = PAUSED
           /\ campaigns[c].pause_reason = MANUAL
           /\ last'.op \in {"track_spend", "check_budget_limits", "enforce_budget_limits",
                            "enforce_dayparting", "reset_daily_spends", "reset_monthly_spends"})
          => StatusFields(campaigns'[c]) = StatusFields(campaigns[c])]_vars

\* C35 witness: a dayparting run inside the window has left a campaign
\* PAUSED with MANUAL that is under both budgets and was paused earlier.
C35_Witness ==
    /\ last.op = "enforce_dayparting"
    /\ \E c \in Campaigns :
          /\ campaigns[c].status = PAUSED
          /\ campaigns[c].pause_reason = MANUAL
          /\ campaigns[c].paused_at # Now
          /\ can_be_activated(campaigns[c], c) = "true"

\* C36: check_budget_limits on a PAUSED campaign reports daily_exceeded and
\* monthly_exceeded from the counters, takes no action (action_taken null)
\* and leaves status, pause_reason and paused_at; track_spend on a PAUSED
\* campaign records the spend and leaves the three fields as well.
C36_CheckOnPausedTakesNoAction ==
    [][\A c \in Campaigns :
          (campaigns[c].status = PAUSED /\ last'.campaign = c)
          => /\ last'.op = "check_budget_limits"
                => /\ last'.result.daily_exceeded
                        = (campaigns[c].daily_spend >= brand(c).daily_budget)
                   /\ last'.result.monthly_exceeded
                        = (campaigns[c].monthly_spend >= brand(c).monthly_budget)
                   /\ last'.result.action_taken = NULL
                   /\ StatusFields(campaigns'[c]) = StatusFields(campaigns[c])
             /\ (last'.op = "track_spend" /\ last'.outcome = "ok")
                => /\ Len(spends') = Len(spends) + 1
                   /\ spends'[Len(spends')].campaign = c
                   /\ spends'[Len(spends')].amount = last'.amount
                   /\ last'.result.action_taken = NULL
                   /\ StatusFields(campaigns'[c]) = StatusFields(campaigns[c])]_vars

\* C36 witness: check_budget_limits has run on a campaign paused earlier
\* with OUTSIDE_SCHEDULE whose daily counter has reached the budget.
C36_Witness ==
    /\ last.op = "check_budget_limits"
    /\ last.result.daily_exceeded
    /\ last.result.action_taken = NULL
    /\ campaigns[last.campaign].status = PAUSED
    /\ campaigns[last.campaign].pause_reason = OUTSIDE_SCHEDULE
    /\ campaigns[last.campaign].paused_at # Now

\* C36 witness for the spend case: track_spend has recorded a spend on a
\* campaign that is PAUSED with MANUAL and at its daily budget.
C36_WitnessSpend ==
    /\ last.op = "track_spend"
    /\ last.outcome = "ok"
    /\ Len(spends) > 0
    /\ campaigns[last.campaign].status = PAUSED
    /\ campaigns[last.campaign].pause_reason = MANUAL
    /\ campaigns[last.campaign].daily_spend >= brand(last.campaign).daily_budget

(***************************************************************************)
(* The activate phase of the dayparting sweep (SpecSweep).                 *)
(***************************************************************************)
\* C37: a run of enforce_dayparting leaves every campaign that was PAUSED
\* with OUTSIDE_SCHEDULE or NO_SCHEDULE and for which can_be_activated held
\* ACTIVE with pause_reason and paused_at cleared, and activated is the
\* number of campaigns the run moved from PAUSED to ACTIVE.
C37_DaypartingReactivatesEligible ==
    [][last'.op = "enforce_dayparting"
       => /\ \A c \in Campaigns :
                (/\ campaigns[c].status = PAUSED
                 /\ campaigns[c].pause_reason \in {OUTSIDE_SCHEDULE, NO_SCHEDULE}
                 /\ can_be_activated(campaigns[c], c) = "true")
                => campaigns'[c] = [campaigns[c] EXCEPT !.status = ACTIVE,
                                                        !.pause_reason = NULL,
                                                        !.paused_at = NoTime]
          /\ last'.result.activated
               = Cardinality({c \in Campaigns : /\ campaigns[c].status = PAUSED
                                                /\ campaigns'[c].status = ACTIVE})]_vars

(***************************************************************************)
(* The campaign CRUD API: CampaignViewSet is a ModelViewSet over            *)
(* CampaignSerializer with fields = '__all__'.  status, pause_reason and   *)
(* paused_at are writable; none is required (default, null=True); the      *)
(* serializer validates each field by itself and Campaign has no clean().  *)
(***************************************************************************)
\* the three status columns a request may supply
StatusColumns == {"status", "pause_reason", "paused_at"}

\* ModelSerializer.create / update: the supplied columns are assigned, the
\* others keep what the row had (on create, the column default)
serializer_save(camp, given, status, pause_reason, paused_at) ==
    [camp EXCEPT !.status = IF "status" \in given THEN status ELSE @,
                 !.pause_reason = IF "pause_reason" \in given THEN pause_reason ELSE @,
                 !.paused_at = IF "paused_at" \in given THEN paused_at ELSE @]

\* POST /api/campaigns/
CreateCampaign(c) ==
    /\ c \notin Campaigns
    /\ \E given \in SUBSET StatusColumns, status \in {ACTIVE, PAUSED},
          pause_reason \in PauseReason \cup {NULL}, paused_at \in {NoTime, Now} :
          /\ campaigns' = [d \in Campaigns \cup {c} |->
                IF d = c
                THEN serializer_save(NewCampaign, given, status, pause_reason, paused_at)
                ELSE campaigns[d]]
          /\ last' = Done("create_campaign", c, 0, "ok", [given |-> given])
    /\ schedules' = [d \in Campaigns \cup {c} |-> IF d = c THEN {} ELSE schedules[d]]
    /\ UNCHANGED <<spends, clock, procs>>

\* PUT / PATCH /api/campaigns/{id}/
UpdateCampaign(c) ==
    /\ \E given \in SUBSET StatusColumns, status \in {ACTIVE, PAUSED},
          pause_reason \in PauseReason \cup {NULL}, paused_at \in {NoTime, Now} :
          /\ campaigns' = [campaigns EXCEPT
                ![c] = serializer_save(@, given, status, pause_reason, paused_at)]
          /\ last' = Done("update_campaign", c, 0, "ok", [given |-> given])
    /\ UNCHANGED <<schedules, spends, clock, procs>>

InitCrud ==
    /\ campaigns = [c \in {} |-> NewCampaign]
    /\ schedules = [c \in {} |-> {}]
    /\ spends = <<>>
    /\ clock = [day |-> 0, time |-> 0]
    /\ last = Done("init", "-", 0, "ok", NoResult)
    /\ procs = NoProcs

NextCrud ==
    \/ CreateCampaign("c1")
    \/ \E c \in Campaigns : UpdateCampaign(c)
    \/ \E c \in Campaigns : CreateDefaultSchedule(c)
    \/ \E c \in Campaigns, reason \in PauseReason : Pause(c, reason)
    \/ \E c \in Campaigns : Activate(c)
    \/ Tick

\* the campaign API next to Campaign.pause and Campaign.activate
SpecCrud == InitCrud /\ [][NextCrud]_vars

\* C38: the campaigns stored through the API (create, update) and through
\* pause and activate all have pause_reason null exactly when status is
\* ACTIVE, and exactly when paused_at is null.
C38_PairingThroughApi == \A c \in DOMAIN campaigns : Paired(campaigns[c])

(***************************************************************************)
(* Brand totals (brands/models.py).  The campaigns of the model belong to  *)
(* one brand: brand(c) is the same for all of them.                        *)
(***************************************************************************)
\* Brand.get_total_daily_spend: the sum over self.campaigns.all()
get_total_daily_spend ==
    SumOver(Campaigns, [c \in Campaigns |-> campaigns[c].daily_spend])

\* Brand.is_over_daily_budget, for the brand of campaign c
is_over_daily_budget(c) == get_total_daily_spend >= brand(c).daily_budget

\* C39: when the daily spend of a brand's campaigns together has reached the
\* brand's daily budget, a run of enforce_budget_limits in which no check
\* fails leaves no campaign of the brand ACTIVE.
C39_BrandBudgetCapsCampaignsTogether ==
    [][(/\ last'.op = "enforce_budget_limits"
        /\ last'.result.errors = 0)
       => \A c \in Campaigns :
             is_over_daily_budget(c) => campaigns'[c].status # ACTIVE]_vars

(***************************************************************************)
(* One run of enforce_dayparting with time passing inside it: the pause    *)
(* list, the activate list and every can_be_activated call read            *)
(* timezone.now() for themselves.                                          *)
(***************************************************************************)
\* the run: where it is, what it has paused and activated, and the campaigns
\* of the activate list it has not looked at yet
DaypartingRun(pc, paused, activated, todo) ==
    [dayparting |-> [pc |-> pc, paused |-> paused, activated |-> activated, todo |-> todo]]

\* get_campaigns_that_should_be_paused and the pause loop (services.py 116-126)
RunPausePhase ==
    /\ procs.dayparting.pc = "start"
    /\ IF pause_phase_raises
       THEN /\ procs' = DaypartingRun("done", {}, {}, {})
            /\ UNCHANGED campaigns
       ELSE /\ campaigns' = AfterPausePhase
            /\ procs' = DaypartingRun("query_active",
                                      {c \in Campaigns : should_be_paused(c)}, {}, {})
    /\ UNCHANGED <<schedules, spends, clock, last>>

\* get_campaigns_that_should_be_active (services.py 129): the campaigns with
\* an active row of today covering the time of this query
RunQueryActive ==
    /\ procs.dayparting.pc = "query_active"
    /\ procs' = [procs EXCEPT !.dayparting.pc = "activate",
                              !.dayparting.todo = {c \in Campaigns : RowsCoveringNow(c) # {}}]
    /\ UNCHANGED <<campaigns, schedules, spends, clock, last>>

\* one turn of the activate loop (services.py 131-143): the reason filter,
\* then can_be_activated and activate at the time of this turn
RunActivateOne(c) ==
    /\ procs.dayparting.pc = "activate"
    /\ c \in procs.dayparting.todo
    /\ IF /\ is_paused(campaigns[c])
          /\ campaigns[c].pause_reason \in ScheduleReasons
          /\ can_be_activated(campaigns[c], c) = "true"
       THEN /\ campaigns' = [campaigns EXCEPT ![c] = activate(@, c)]
            /\ procs' = [procs EXCEPT !.dayparting.todo = @ \ {c},
                                      !.dayparting.activated = @ \cup {c}]
       ELSE /\ UNCHANGED campaigns
            /\ procs' = [procs EXCEPT !.dayparting.todo = @ \ {c}]
    /\ UNCHANGED <<schedules, spends, clock, last>>

\* the run returns its results
RunEnd ==
    /\ procs.dayparting.pc = "activate"
    /\ procs.dayparting.todo = {}
    /\ procs' = [procs EXCEPT !.dayparting.pc = "done"]
    /\ last' = Done("enforce_dayparting", "-", 0, "ok",
                    [activated |-> Cardinality(procs.dayparting.activated),
                     paused |-> Cardinality(procs.dayparting.paused),
                     errors |-> 0])
    /\ UNCHANGED <<campaigns, schedules, spends, clock>>

\* time passes while the run is under way
RunTick ==
    /\ procs.dayparting.pc # "done"
    /\ Tick

\* every campaign has at most one active row a day: no lookup raises
InitRun ==
    /\ campaigns \in [SweepCampaigns -> ConcRows]
    /\ schedules \in [SweepCampaigns -> {cfg \in ConcSchedules : Cardinality(cfg) <= 1}]
    /\ spends = <<>>
    /\ clock \in [day : Days, time : Times]
    /\ last = Done("init", "-", 0, "ok", NoResult)
    /\ procs = DaypartingRun("start", {}, {}, {})

NextRun ==
    \/ RunPausePhase
    \/ RunQueryActive
    \/ \E c \in Campaigns : RunActivateOne(c)
    \/ RunEnd
    \/ RunTick

\* one run of the dayparting sweep, up to its return
SpecRun == InitRun /\ [][NextRun]_vars

\* the run has paused c and then activated it again
PausedAndReactivated(c) ==
    c \in procs.dayparting.paused /\ c \in procs.dayparting.activated

\* C40: when a run of enforce_dayparting has ended, it has not both paused
\* and reactivated any campaign, and every ACTIVE campaign is inside one of
\* its schedule windows at the time the run ends.
C40_RunIsConsistentAtItsEnd ==
    procs.dayparting.pc = "done"
    => \A c \in Campaigns :
          /\ ~PausedAndReactivated(c)
          /\ campaigns[c].status = ACTIVE => WindowOpen(c)

====
